---- MODULE Spec2Model ----
(***************************************************************************)
(* regress_continuous (mne/stats/regression.py): regression-based evoked   *)
(* responses from a continuous recording.  One call of the function is     *)
(* modelled as a run of the state machine below; every action is one       *)
(* stage of the function body (window resolution, one iteration of the     *)
(* predictor loop, assembly, rejection, solve, one iteration of the        *)
(* reconstruction loop, return).                                           *)
(*                                                                         *)
(* Conventions                                                             *)
(*  - seconds are integers counting tenths of a second; int(t * sfreq)     *)
(*    is Python's int() of the exact product (truncation towards zero).    *)
(*  - a matrix is a record [nr, nc, a] with a[i][j], 1-based; Python's     *)
(*    0-based sample index s is position s + 1.                            *)
(*  - scipy.linalg.inv is modelled over the rationals: it raises           *)
(*    LinAlgError exactly when the determinant is 0, and a coefficient is  *)
(*    the pair <<numerator, determinant>>.                                 *)
(*  - the names scipy and mne are used by the function but bound by no     *)
(*    import of the module: each lookup either finds the name in the       *)
(*    module's globals (put there from outside) or raises NameError.       *)
(***************************************************************************)
EXTENDS Integers, Sequences, FiniteSets, TLC

\* ------------------------------------------------------------------ bounds
NSamples == 3
MaxEvents == 3
MaxRanges == 1
NChannels == 1

\* Python's None; an optional value is NoneVal or Some(x)
None == "None"
NoneVal == [none |-> TRUE]
Some(x) == [none |-> FALSE, val |-> x]

\* ------------------------------------------------------- vectors, matrices
RECURSIVE SumTo(_, _)
SumTo(f, n) == IF n = 0 THEN 0 ELSE f[n] + SumTo(f, n - 1)

\* np.zeros(n) for n >= 0
zeros(n) == [k \in 1..n |-> 0]

Transpose(M) ==
    [nr |-> M.nc, nc |-> M.nr,
     a |-> [r \in 1..M.nc |-> [c \in 1..M.nr |-> M.a[c][r]]]]

\* np.dot of two matrices with A.nc = B.nr
Dot(A, B) ==
    [nr |-> A.nr, nc |-> B.nc,
     a |-> [r \in 1..A.nr |-> [c \in 1..B.nc |->
              SumTo([k \in 1..A.nc |-> A.a[r][k] * B.a[k][c]], A.nc)]]]

\* scipy.linalg.toeplitz(c, r): first column c, first row r, r[0] ignored
toeplitz(c, r) ==
    [nr |-> Len(c), nc |-> Len(r),
     a |-> [i \in 1..Len(c) |-> [j \in 1..Len(r) |->
              IF i >= j THEN c[i - j + 1] ELSE r[j - i + 1]]]]

\* np.hstack of a non-empty list of matrices with the same number of rows
RECURSIVE hstack(_)
hstack(arrs) ==
    IF Len(arrs) = 1 THEN arrs[1]
    ELSE LET L == hstack(SubSeq(arrs, 1, Len(arrs) - 1))
             R == arrs[Len(arrs)]
         IN  [nr |-> L.nr, nc |-> L.nc + R.nc,
              a |-> [r \in 1..L.nr |-> L.a[r] \o R.a[r]]]

\* np.nonzero(v) of a 1-d array: a tuple holding one index array per
\* dimension, hence a 1-tuple
RECURSIVE NonzeroIdx(_, _)
NonzeroIdx(v, n) ==
    IF n = 0 THEN <<>>
    ELSE IF v[n] # 0 THEN Append(NonzeroIdx(v, n - 1), n - 1)
         ELSE NonzeroIdx(v, n - 1)

np_nonzero(v) == << NonzeroIdx(v, Len(v)) >>

\* positions of the TRUE entries of a boolean mask, ascending
RECURSIVE MaskIdx(_, _)
MaskIdx(mask, n) ==
    IF n = 0 THEN <<>>
    ELSE IF mask[n] THEN Append(MaskIdx(mask, n - 1), n)
         ELSE MaskIdx(mask, n - 1)

\* M[:, mask]: boolean-mask selection of columns
SelectCols(M, mask) ==
    LET idx == MaskIdx(mask, Len(mask))
    IN  [nr |-> M.nr, nc |-> Len(idx),
         a |-> [r \in 1..M.nr |-> [c \in 1..Len(idx) |-> M.a[r][idx[c]]]]]

\* np.vstack((M, np.ones(M.shape[1])))
vstack_ones(M) ==
    [nr |-> M.nr + 1, nc |-> M.nc,
     a |-> [r \in 1..(M.nr + 1) |-> IF r <= M.nr THEN M.a[r]
                                     ELSE [c \in 1..M.nc |-> 1]]]

\* ------------------------------------------------- determinant and inverse
\* fraction-free (Bareiss) elimination on a square array of size n
RECURSIVE Bareiss(_, _, _, _, _)
Bareiss(a, n, k, prev, sign) ==
    IF n = 0 THEN 1
    ELSE LET piv == {p \in k..n : a[p][k] # 0}
         IN  IF piv = {} THEN 0
             ELSE IF k = n THEN sign * a[n][n]
             ELSE LET p == CHOOSE q \in piv : \A q2 \in piv : q <= q2
                      b == [r \in 1..n |-> IF r = k THEN a[p]
                                           ELSE IF r = p THEN a[k] ELSE a[r]]
                      s == IF p = k THEN sign ELSE -sign
                      nx == [r \in 1..n |-> [c \in 1..n |->
                               IF r > k /\ c > k
                               THEN (b[k][k] * b[r][c] - b[r][k] * b[k][c]) \div prev
                               ELSE b[r][c]]]
                  IN  Bareiss(nx, n, k + 1, b[k][k], s)

Det(M) == Bareiss(M.a, M.nr, 1, 1, 1)

\* M without row i and column j
Minor(M, i, j) ==
    [nr |-> M.nr - 1, nc |-> M.nc - 1,
     a |-> [r \in 1..(M.nr - 1) |-> [c \in 1..(M.nc - 1) |->
              M.a[IF r < i THEN r ELSE r + 1][IF c < j THEN c ELSE c + 1]]]]

\* adjugate: inv(M) = Adj(M) / Det(M)
Adj(M) ==
    [nr |-> M.nr, nc |-> M.nc,
     a |-> [r \in 1..M.nr |-> [c \in 1..M.nc |->
              (IF (r + c) % 2 = 0 THEN 1 ELSE -1) * Det(Minor(M, c, r))]]]


\* ------------------------------------------------------------------ inputs
\* Python's int() of the exact quotient num / den: truncation towards zero
int_(num, den) == IF num >= 0 THEN num \div den ELSE -((-num) \div den)

\* int(t * sfreq) for t given in tenths of a second
to_samples(t, sfreq) == int_(t * sfreq, 10)

\* the defaults -.1 s, 1 s and 1.0 s, in tenths of a second
DefaultTmin == -1
DefaultTmax == 10
DefaultTstep == 10

\* a dict is a sequence of [k, v] items in insertion order
keys(d) == [i \in 1..Len(d) |-> d[i].k]
has_key(d, k) == \E i \in 1..Len(d) : d[i].k = k
get(d, k) == d[CHOOSE i \in 1..Len(d) : d[i].k = k].v
\* d.get(k, default)
get_default(d, k, default) == IF has_key(d, k) THEN get(d, k) ELSE default

IntCode(c) == [type |-> "int", int |-> c, list |-> <<>>]
ListCodes(l) == [type |-> "list", int |-> 0, list |-> l]
Scalar(s) == [type |-> "scalar", scalar |-> s, dict |-> <<>>]
Dict(d) == [type |-> "dict", scalar |-> 0, dict |-> d]
Item(k, v) == [k |-> k, v |-> v]

SFreqs == {2}
Codes == {1, 2}

\* events: rows (sample, previous value, code), samples strictly increasing
EventLists ==
    {ev \in UNION {[1..n -> (0..(NSamples - 1)) \X {0} \X Codes] : n \in 0..MaxEvents} :
        \A i \in 1..Len(ev) : \A j \in 1..Len(ev) : i < j => ev[i][1] < ev[j][1]}

EventIds ==
    { <<>>,
      << Item("a", IntCode(1)) >>,
      << Item("a", ListCodes(<<1, 2>>)) >>,
      << Item("a", IntCode(1)), Item("b", IntCode(2)) >> }

CovValue(i) == (i - 1) % 3
\* one covariate of MaxEvents values: as long as events only when events is full
Covariates ==
    {NoneVal, Some(<< Item("v", [i \in 1..MaxEvents |-> CovValue(i)]) >>)}

\* tenths of a second
TminSpecs == { Scalar(0), Scalar(-7), Dict(<< Item("a", 12), Item("v", 7) >>) }
TmaxSpecs ==
    { Scalar(12),
      Dict(<< Item("a", 7), Item("b", 0), Item("v", 5) >>),
      Dict(<< Item("v", 7) >>) }

\* (reject, tstep) as passed by the caller
DefaultReject == "default thresholds"
CustomReject == "custom thresholds"
RejectSpecs == { <<None, NoneVal>>, <<"True", NoneVal>>, <<CustomReject, Some(2)>> }

\* raw[:] : channels x samples
Raws ==
    { [nr |-> NChannels, nc |-> NSamples,
       a |-> [ch \in 1..NChannels |-> [t \in 1..NSamples |-> ch * t]]],
      [nr |-> NChannels, nc |-> NSamples,
       a |-> [ch \in 1..NChannels |-> [t \in 1..NSamples |-> t * t + ch]]] }

\* mne.utils._reject_data_segments: the lists of sample ranges [t0, t1) the
\* bad-segment detector can return, in ascending order
Ranges == {r \in (0..NSamples) \X (0..NSamples) : r[1] < r[2]}
reject_data_segments ==
    {l \in UNION {[1..n -> Ranges] : n \in 0..MaxRanges} :
        \A p \in 1..Len(l) : \A q \in 1..Len(l) : p < q => l[p][2] <= l[q][1]}

\* mne.EvokedArray(data, info, tmin, comment=, nave=, kind=)
EvokedArray(data_, tmin_, comment, nave, kind) ==
    [data |-> data_, tmin |-> tmin_, comment |-> comment, nave |-> nave,
     kind |-> kind]


\* ------------------------------------------------------------------- state
VARIABLES
    pc,            \* stage of the call
    err,           \* the exception that ended the call, or NoneVal
    sfreq,         \* raw.info["sfreq"]
    data,          \* raw[:][0], channels x samples
    events, event_id, covariates,
    tmin, tmax,    \* the arguments, then the per-condition sample offsets
    reject, tstep,
    conds,         \* list of condition names
    i,             \* position of the running for loop in conds
    cond_length, pred_arrays,
    big_arr, has_val, inds,
    X, Y, coefs,
    ev_dict, cum

vars == <<pc, err, sfreq, data, events, event_id, covariates, tmin, tmax,
          reject, tstep, conds, i, cond_length, pred_arrays, big_arr,
          has_val, inds, X, Y, coefs, ev_dict, cum>>

inputs == <<sfreq, data, events, event_id, covariates>>

\* len(times)
n_times == NSamples

EmptyMat == [nr |-> 0, nc |-> 0, a |-> <<>>]
EmptyDict == [c \in {} |-> 0]

Error(kind, line) == Some([kind |-> kind, line |-> line])

Init ==
    /\ pc = "resolve"
    /\ err = NoneVal
    /\ sfreq \in SFreqs
    /\ data \in Raws
    /\ events \in EventLists
    /\ event_id \in EventIds
    /\ covariates \in Covariates
    /\ tmin \in TminSpecs
    /\ tmax \in TmaxSpecs
    /\ \E rs \in RejectSpecs : reject = rs[1] /\ tstep = rs[2]
    /\ conds = <<>>
    /\ i = 0
    /\ cond_length = EmptyDict
    /\ pred_arrays = <<>>
    /\ big_arr = EmptyMat
    /\ has_val = <<>>
    /\ inds = <<>>
    /\ X = EmptyMat
    /\ Y = EmptyMat
    /\ coefs = EmptyMat
    /\ ev_dict = EmptyDict
    /\ cum = 0

\* ------------------------------------------------ lines 201-214: windows
\* {cond: int(spec * sfreq) for cond in over} / {cond: int(spec.get(cond, dflt) * sfreq) ...}
resolve_tmin(spec, cs) ==
    IF spec.type = "scalar"
    THEN [c \in {cs[k] : k \in 1..Len(cs)} |-> to_samples(spec.scalar, sfreq)]
    ELSE [c \in {cs[k] : k \in 1..Len(cs)} |->
            to_samples(get_default(spec.dict, c, DefaultTmin), sfreq)]

resolve_tmax(spec, cs) ==
    IF spec.type = "scalar"
    THEN [c \in {keys(event_id)[k] : k \in 1..Len(event_id)} |->
            to_samples(spec.scalar, sfreq)]
    ELSE [c \in {cs[k] : k \in 1..Len(cs)} |->
            to_samples(get_default(spec.dict, c, DefaultTmax), sfreq)]

ResolveWindows ==
    /\ pc = "resolve"
    /\ LET cs == IF covariates.none THEN keys(event_id)
                 ELSE keys(event_id) \o keys(covariates.val)
       IN  /\ conds' = cs
           /\ tmin' = resolve_tmin(tmin, cs)
           /\ tmax' = resolve_tmax(tmax, cs)
    /\ i' = 1
    /\ pc' = "build"
    /\ UNCHANGED <<err, inputs, reject, tstep, cond_length, pred_arrays,
                   big_arr, has_val, inds, X, Y, coefs, ev_dict, cum>>

\* ------------------------------------- lines 223-245: one predictor block
\* numpy index into an array of length n: negative indices count from the end
in_bounds(idx, n) == -n <= idx /\ idx < n
wrap(idx, n) == IF idx < 0 THEN idx + n ELSE idx

\* ids of a binary condition (lines 230-231)
ids_of(v) == IF v.type = "int" THEN <<v.int>> ELSE v.list
is_in(e, l) == \E k \in 1..Len(l) : l[k] = e

\* [t for t, _, e in events if e in ids] + tmin_  (lines 232-233)
RECURSIVE event_index(_, _, _, _)
event_index(evs, n, ids, tmin_) ==
    IF n = 0 THEN <<>>
    ELSE IF is_in(evs[n][3], ids)
         THEN Append(event_index(evs, n - 1, ids, tmin_), evs[n][1] + tmin_)
         ELSE event_index(evs, n - 1, ids, tmin_)

\* samples[idx] = 1 for an index array idx (line 232)
set_ones(samples, idx) ==
    [t \in 1..Len(samples) |->
        IF \E k \in 1..Len(idx) : wrap(idx[k], Len(samples)) + 1 = t
        THEN 1 ELSE samples[t]]

\* for tx, v in zip(events[:, 0], cov): samples[tx + tmin_] = np.float(v)
\* after the first n pairs (lines 239-240)
RECURSIVE set_values(_, _, _, _, _)
set_values(samples, evs, cov, n, tmin_) ==
    IF n = 0 THEN samples
    ELSE LET prev == set_values(samples, evs, cov, n - 1, tmin_)
         IN  [prev EXCEPT ![wrap(evs[n][1] + tmin_, Len(samples)) + 1] = cov[n]]

\* lines 228-240 for one condition.  float_index: whether this numpy accepts
\* the float64 array that np.asarray([]) + tmin_ is as an index
build_samples(cond, tmin_, float_index) ==
    LET z == zeros(n_times)
    IN  IF has_key(event_id, cond)
        THEN LET idx == event_index(events, Len(events), ids_of(get(event_id, cond)), tmin_)
             IN  IF Len(idx) = 0
                 THEN IF float_index THEN [err |-> NoneVal, samples |-> z]
                      ELSE [err |-> Error("IndexError", 232), samples |-> z]
                 ELSE IF \E k \in 1..Len(idx) : ~in_bounds(idx[k], n_times)
                 THEN [err |-> Error("IndexError", 232), samples |-> z]
                 ELSE [err |-> NoneVal, samples |-> set_ones(z, idx)]
        ELSE LET cov == get(covariates.val, cond)
                 n == IF Len(events) < Len(cov) THEN Len(events) ELSE Len(cov)
             IN  IF Len(cov) # Len(events)
                 THEN [err |-> Error("ValueError", 238), samples |-> z]
                 ELSE IF \E k \in 1..n : ~in_bounds(events[k][1] + tmin_, n_times)
                 THEN [err |-> Error("IndexError", 240), samples |-> z]
                 ELSE [err |-> NoneVal, samples |-> set_values(z, events, cov, n, tmin_)]

\* cond_length[cond] = len(np.nonzero(samples))  (line 241)
count_length(samples) == Len(np_nonzero(samples))

put(d, k, v) == [c \in DOMAIN d \cup {k} |-> IF c = k THEN v ELSE d[c]]

Fail(e) == pc' = "error" /\ err' = e

BuildPredictor ==
    /\ pc = "build"
    /\ i <= Len(conds)
    /\ \E float_index \in BOOLEAN, scipy_bound \in BOOLEAN :
         LET cond == conds[i]
         IN  IF cond \notin DOMAIN tmax
             THEN /\ Fail(Error("KeyError", 224))
                  /\ UNCHANGED <<cond_length, pred_arrays, i>>
             ELSE
             LET tmin_ == tmin[cond]
                 tmax_ == tmax[cond]
                 n_lags == tmax_ - tmin_
             IN  IF n_lags < 0
                 THEN /\ Fail(Error("ValueError", 228))
                      /\ UNCHANGED <<cond_length, pred_arrays, i>>
                 ELSE
                 LET r == build_samples(cond, tmin_, float_index)
                 IN  IF ~r.err.none
                     THEN /\ Fail(r.err)
                          /\ UNCHANGED <<cond_length, pred_arrays, i>>
                     ELSE /\ cond_length' = put(cond_length, cond, count_length(r.samples))
                          /\ IF ~scipy_bound
                             THEN /\ Fail(Error("NameError", 245))
                                  /\ UNCHANGED <<pred_arrays, i>>
                             ELSE /\ pred_arrays' =
                                       Append(pred_arrays, toeplitz(r.samples, zeros(n_lags)))
                                  /\ i' = i + 1
                                  /\ UNCHANGED <<pc, err>>
    /\ UNCHANGED <<inputs, tmin, tmax, reject, tstep, conds, big_arr, has_val,
                   inds, X, Y, coefs, ev_dict, cum>>

\* ---------------------------------------------- lines 247-250: assembly
\* [len(np.nonzero(line)[0]) > 0 for line in big_arr.T]
support(M) ==
    LET lines == Transpose(M)
    IN  [t \in 1..lines.nr |-> Len(np_nonzero(lines.a[t])[1]) > 0]

Assemble ==
    /\ pc = "build"
    /\ i > Len(conds)
    /\ IF pred_arrays = <<>>
       THEN /\ Fail(Error("ValueError", 247))
            /\ UNCHANGED <<big_arr, has_val>>
       ELSE /\ big_arr' = Transpose(hstack(pred_arrays))
            /\ has_val' = support(Transpose(hstack(pred_arrays)))
            /\ pc' = "reject"
            /\ UNCHANGED err
    /\ UNCHANGED <<inputs, tmin, tmax, reject, tstep, conds, i, cond_length,
                   pred_arrays, inds, X, Y, coefs, ev_dict, cum>>

\* --------------------------------------------- lines 252-267: rejection
\* mutant of clear_ranges: has_val[t0:t1 + 1] = False
RECURSIVE clear_ranges_inclusive(_, _, _)
clear_ranges_inclusive(mask, l, n) ==
    IF n = 0 THEN mask
    ELSE LET prev == clear_ranges_inclusive(mask, l, n - 1)
         IN  [t \in 1..Len(mask) |->
                IF l[n][1] <= t - 1 /\ t - 1 <= l[n][2] THEN FALSE ELSE prev[t]]

\* for t0, t1 in inds: has_val[t0:t1] = False
RECURSIVE clear_ranges(_, _, _)
clear_ranges(mask, l, n) ==
    IF n = 0 THEN mask
    ELSE LET prev == clear_ranges(mask, l, n - 1)
         IN  [t \in 1..Len(mask) |->
                IF l[n][1] <= t - 1 /\ t - 1 < l[n][2] THEN FALSE ELSE prev[t]]

Reject ==
    /\ pc = "reject"
    /\ IF reject = None
       THEN \* _reject_data_segments is a local name bound only by the import
            \* inside the if; line 264 reads it unbound
            /\ Fail(Error("UnboundLocalError", 264))
            /\ UNCHANGED <<reject, tstep, inds, has_val>>
       ELSE /\ reject' = IF reject = CustomReject THEN reject ELSE DefaultReject
            /\ tstep' = IF tstep.none THEN Some(DefaultTstep) ELSE tstep
            /\ \E l \in reject_data_segments :
                 /\ inds' = l
                 /\ has_val' = clear_ranges(has_val, l, Len(l))
            /\ pc' = "solve"
            /\ UNCHANGED err
    /\ UNCHANGED <<inputs, tmin, tmax, conds, i, cond_length, pred_arrays,
                   big_arr, X, Y, coefs, ev_dict, cum>>

\* ------------------------------------------------- lines 269-276: solve
design(arr, mask) == Transpose(vstack_ones(SelectCols(arr, mask)))
target(d, mask) == SelectCols(d, mask)

\* np.dot(inv(np.dot(X.T, X)), np.dot(X.T, Y.T)).T as numerators over the
\* common denominator det(X.T X)
solve(x, y) ==
    LET A == Dot(Transpose(x), x)
        num == Transpose(Dot(Adj(A), Dot(Transpose(x), Transpose(y))))
    IN  [nr |-> num.nr, nc |-> num.nc, a |-> num.a, den |-> Det(A)]

Solve ==
    /\ pc = "solve"
    /\ X' = design(big_arr, has_val)
    /\ Y' = target(data, has_val)
    /\ IF Det(Dot(Transpose(X'), X')) = 0
       THEN /\ Fail(Error("LinAlgError", 275))
            /\ UNCHANGED <<coefs, i>>
       ELSE /\ coefs' = solve(X', Y')
            /\ i' = 1
            /\ pc' = "reconstruct"
            /\ UNCHANGED err
    /\ UNCHANGED <<inputs, tmin, tmax, reject, tstep, conds, cond_length,
                   pred_arrays, big_arr, has_val, inds, ev_dict, cum>>

\* ----------------------------------------- lines 279-289: reconstruction
\* mutant of slice_cols: M[:, :hi - lo], the running offset forgotten
slice_cols_no_offset(M, lo, hi) ==
    LET h == IF hi - lo > M.nc THEN M.nc ELSE hi - lo
    IN  [nr |-> M.nr, nc |-> h, den |-> M.den,
         a |-> [r \in 1..M.nr |-> [c \in 1..h |-> M.a[r][c]]]]

\* M[:, lo:hi] for 0 <= lo
slice_cols(M, lo, hi) ==
    LET h == IF hi > M.nc THEN M.nc ELSE hi
        l == IF lo > h THEN h ELSE lo
    IN  [nr |-> M.nr, nc |-> h - l, den |-> M.den,
         a |-> [r \in 1..M.nr |-> [c \in 1..(h - l) |-> M.a[r][l + c]]]]

Reconstruct ==
    /\ pc = "reconstruct"
    /\ i <= Len(conds)
    /\ \E mne_bound \in BOOLEAN :
         LET cond == conds[i]
             tmin_ == tmin[cond]
             tmax_ == tmax[cond]
         IN  IF ~mne_bound
             THEN /\ Fail(Error("NameError", 283))
                  /\ UNCHANGED <<ev_dict, cum, i>>
             ELSE /\ ev_dict' = put(ev_dict, cond,
                                    EvokedArray(slice_cols(coefs, cum, cum + tmax_ - tmin_),
                                                <<tmin_, sfreq>>, cond,
                                                cond_length[cond], "mean"))
                  /\ cum' = cum + tmax_ - tmin_
                  /\ i' = i + 1
                  /\ UNCHANGED <<pc, err>>
    /\ UNCHANGED <<inputs, tmin, tmax, reject, tstep, conds, cond_length,
                   pred_arrays, big_arr, has_val, inds, X, Y, coefs>>

Return ==
    /\ pc = "reconstruct"
    /\ i > Len(conds)
    /\ pc' = "done"
    /\ UNCHANGED <<err, inputs, tmin, tmax, reject, tstep, conds, i, cond_length,
                   pred_arrays, big_arr, has_val, inds, X, Y, coefs, ev_dict, cum>>

Next ==
    \/ ResolveWindows
    \/ BuildPredictor
    \/ Assemble
    \/ Reject
    \/ Solve
    \/ Reconstruct
    \/ Return

Spec == Init /\ [][Next]_vars


\* ------------------------------------------------------------- properties
n_lags_of(c) == tmax[c] - tmin[c]
IsBinary(c) == has_key(event_id, c)
SolveReached == X.nc > 0
Returned == pc = "done"
FailedAt(lo, hi) == pc = "error" /\ err.val.line >= lo /\ err.val.line <= hi

\* the samples (0-based) at which the indicator vector of condition c, as
\* the predictor loop filled it, is nonzero
IndicatorSupport(c) ==
    LET v == build_samples(c, tmin[c], TRUE).samples
    IN  {t \in 0..(n_times - 1) : v[t + 1] # 0}

\* events (rows of events) that belong to the binary condition c
EventsOf(c) ==
    {n \in 1..Len(events) : is_in(events[n][3], ids_of(get(event_id, c)))}

\* C1: the trial count attached to every returned response equals the number
\* of nonzero entries of that condition's indicator vector (k events at k
\* distinct in-range samples give trial count k).
C1_NaveCountsNonzero ==
    Returned =>
        \A c \in DOMAIN ev_dict :
            ev_dict[c].nave = Cardinality(IndicatorSupport(c))

\* C2: with reject = None the call does not fail in the rejection stage
\* (lines 252-267), and the rows of the design matrix are exactly the samples
\* at which some predictor column is nonzero.
C2_NoRejectionReachesSolve ==
    reject = None =>
        /\ ~FailedAt(252, 267)
        /\ SolveReached =>
             /\ inds = <<>>
             /\ has_val = support(big_arr)

\* C3: after window resolution every condition (every key of event_id and of
\* covariates) has an integer tmin and an integer tmax entry, whatever the
\* shapes of the tmin and tmax arguments.
C3_WindowForEveryCondition ==
    pc # "resolve" =>
        \A k \in 1..Len(conds) :
            /\ conds[k] \in DOMAIN tmin /\ tmin[conds[k]] \in Int
            /\ conds[k] \in DOMAIN tmax /\ tmax[conds[k]] \in Int

\* C4: when all conditions are binary, no two events have overlapping
\* response windows, all windows lie inside the recording, no sample is
\* rejected and the data are noise-free (every event of a condition is
\* followed by the same values), the solve succeeds and every response
\* equals the time-locked average.
WindowOf(c, n) == (events[n][1] + tmin[c])..(events[n][1] + tmax[c] - 1)
NonOverlap ==
    /\ covariates.none
    /\ \A k \in 1..Len(conds) :
         /\ n_lags_of(conds[k]) >= 1
         /\ EventsOf(conds[k]) # {}
         /\ \A n \in EventsOf(conds[k]) :
              WindowOf(conds[k], n) \subseteq 0..(n_times - 1)
    /\ \A k1 \in 1..Len(conds), k2 \in 1..Len(conds) :
         \A n1 \in EventsOf(conds[k1]), n2 \in EventsOf(conds[k2]) :
            (k1 # k2 \/ n1 # n2) =>
                WindowOf(conds[k1], n1) \cap WindowOf(conds[k2], n2) = {}
NoiseFree ==
    \A k \in 1..Len(conds) :
       \A n1 \in EventsOf(conds[k]), n2 \in EventsOf(conds[k]) :
          \A l \in 0..(n_lags_of(conds[k]) - 1), ch \in 1..data.nr :
             data.a[ch][events[n1][1] + tmin[conds[k]] + l + 1]
               = data.a[ch][events[n2][1] + tmin[conds[k]] + l + 1]
C4_NonOverlapGivesAverage ==
    (SolveReached /\ inds = <<>> /\ NonOverlap /\ NoiseFree) =>
        /\ ~FailedAt(269, 276)
        /\ Returned =>
             \A c \in DOMAIN ev_dict : \A n \in EventsOf(c) :
                \A l \in 0..(n_lags_of(c) - 1), ch \in 1..data.nr :
                   ev_dict[c].data.a[ch][l + 1]
                     = ev_dict[c].data.den * data.a[ch][events[n][1] + tmin[c] + l + 1]

\* C5: the call fails whenever some condition has tmax_samples <= tmin_samples
\* (equality included): no predictor block of zero or negative width is built.
C5_NoEmptyWindowBlock ==
    \A k \in 1..Len(pred_arrays) :
        /\ tmax[conds[k]] > tmin[conds[k]]
        /\ pred_arrays[k].nc > 0

\* C6: every configuration error (invalid window at line 228, covariate
\* length at line 238, empty condition set at line 247) is raised before any
\* lag matrix has been built.
ConfigurationError ==
    /\ pc = "error"
    /\ err.val.kind = "ValueError"
    /\ err.val.line \in {228, 238, 247}
C6_ConfigErrorsBeforeBlocks ==
    ConfigurationError => pred_arrays = <<>>

\* C7: with rejection enabled, the rows of X and of Y are exactly the samples
\* t in [0, T) at which some predictor column is nonzero and which lie in no
\* range [t0, t1) returned by the detector, in ascending order; X carries the
\* predictor blocks side by side and the intercept last.
Retained ==
    {t \in 0..(n_times - 1) :
        /\ \E k \in 1..Len(pred_arrays) : \E l \in 1..pred_arrays[k].nc :
              pred_arrays[k].a[t + 1][l] # 0
        /\ \A r \in 1..Len(inds) : ~(inds[r][1] <= t /\ t < inds[r][2])}
\* the r-th smallest retained sample
RetainedAt(r) ==
    CHOOSE t \in Retained : Cardinality({u \in Retained : u <= t}) = r
RECURSIVE RowOfBlocks(_, _)
RowOfBlocks(t, k) ==
    IF k = 0 THEN <<>> ELSE RowOfBlocks(t, k - 1) \o pred_arrays[k].a[t + 1]
C7_RowsAreSupportMinusRejected ==
    SolveReached =>
        /\ reject # None
        /\ X.nr = Cardinality(Retained)
        /\ Y.nc = Cardinality(Retained)
        /\ \A r \in 1..Cardinality(Retained) :
             /\ X.a[r] = Append(RowOfBlocks(RetainedAt(r), Len(pred_arrays)), 1)
             /\ \A ch \in 1..data.nr : Y.a[ch][r] = data.a[ch][RetainedAt(r) + 1]

\* C7 witness: the design matrix is built while a sample with predictor
\* support lies inside a returned range, and other rows remain.
C7_Witness ==
    /\ SolveReached
    /\ X.nr > 0
    /\ \E t \in 0..(n_times - 1) :
         /\ t \notin Retained
         /\ \E k \in 1..Len(pred_arrays) : \E l \in 1..pred_arrays[k].nc :
               pred_arrays[k].a[t + 1][l] # 0
         /\ \E r \in 1..Len(inds) : inds[r][1] <= t /\ t < inds[r][2]

\* C8: the response of condition c is the coefficient columns
\* [off(c), off(c) + n_lags(c)), off(c) the sum of n_lags over the conditions
\* before c; the slices have width tmax - tmin, leave out the intercept (last
\* column) and, once all are taken, cover all other columns.
RECURSIVE Offset(_)
Offset(k) == IF k <= 1 THEN 0 ELSE Offset(k - 1) + n_lags_of(conds[k - 1])
PositionOf(c) == CHOOSE k \in 1..Len(conds) : conds[k] = c
C8_ResponsesAreSlices ==
    pc \in {"reconstruct", "done"} =>
        /\ \A c \in DOMAIN ev_dict :
             LET off == Offset(PositionOf(c))
                 resp == ev_dict[c].data
             IN  /\ resp.nc = n_lags_of(c)
                 /\ resp.nr = data.nr
                 /\ off + n_lags_of(c) <= coefs.nc - 1
                 /\ \A ch \in 1..resp.nr : \A l \in 1..resp.nc :
                       resp.a[ch][l] = coefs.a[ch][off + l]
        /\ Returned =>
             /\ DOMAIN ev_dict = {conds[k] : k \in 1..Len(conds)}
             /\ Offset(Len(conds) + 1) = coefs.nc - 1

\* C8 witness: a call returns two responses of nonzero width whose
\* coefficient columns differ.
C8_Witness ==
    /\ Returned
    /\ \E c1 \in DOMAIN ev_dict, c2 \in DOMAIN ev_dict :
         /\ PositionOf(c1) < PositionOf(c2)
         /\ n_lags_of(c1) >= 1 /\ n_lags_of(c2) >= 1
         /\ ev_dict[c1].data.a[1][1] # ev_dict[c2].data.a[1][1]

\* C9: a call returns only if some sample is retained and every condition
\* has a nonzero predictor entry on a retained row; otherwise it raises and
\* returns no response.
HasRetainedSupport(k) ==
    \E t \in Retained : \E l \in 1..pred_arrays[k].nc :
        pred_arrays[k].a[t + 1][l] # 0
C9_NoResponseWithoutSupport ==
    Returned =>
        /\ Retained # {}
        /\ \A k \in 1..Len(conds) : HasRetainedSupport(k)

\* C10: entry (t, l) of a binary condition's predictor block is 1 exactly
\* when t - l is in [0, T) and some event of the condition has
\* event_sample + tmin_samples = t - l, and 0 otherwise.
C10_BinaryBlockEntries ==
    \A k \in 1..Len(pred_arrays) :
        IsBinary(conds[k]) =>
            \A t \in 0..(n_times - 1), l \in 0..(n_lags_of(conds[k]) - 1) :
                pred_arrays[k].a[t + 1][l + 1] =
                    IF /\ t - l \in 0..(n_times - 1)
                       /\ \E n \in EventsOf(conds[k]) :
                             events[n][1] + tmin[conds[k]] = t - l
                    THEN 1 ELSE 0

====
